---------------------------- MODULE Spec2Model ----------------------------
(***************************************************************************)
(* A model of the Connect-Four rules engine of src/connect_four_logic.py   *)
(* (class ConnectFour): the game state, reset(), drop_piece(col) and the   *)
(* win detection of _is_winning_move / _count_consecutive; and of the      *)
(* handlers of its Tk front-end, src/connect_four_gui.py (ConnectFourGUI): *)
(* on_click, new_game, _draw_disc and _update_status.                      *)
(*                                                                         *)
(* The engine is a value (a record with the object's fields); reset and    *)
(* drop_piece are operators on that value, written statement by statement  *)
(* from the source.  The actions call them on the current state, and a     *)
(* scripted game is replayed by folding drop_piece over its columns.       *)
(***************************************************************************)
EXTENDS Integers, Sequences, FiniteSets, Bags

(***************************************************************************)
(* Class constants, connect_four_logic.py lines 33-39.                     *)
(***************************************************************************)
ROWS == 6
COLS == 7
CONNECT == 4
EMPTY == 0
PLAYER1 == 1
PLAYER2 == 2

(***************************************************************************)
(* GUI constants, connect_four_gui.py lines 12-17.                         *)
(***************************************************************************)
CELL_SIZE == 80
DISC_OUTLINE == 2
COLOR_P1 == "#f5d20c"
COLOR_P2 == "#d62828"

\* self.winner = None (line 62): "no winner" is modelled as 0, which is, like
\* None, different from both player ids and false in "if self.engine.winner".
NoWinner == 0

(***************************************************************************)
(* Bounds of the exploration.                                              *)
(***************************************************************************)
\* A run starts in a position of a scripted game and makes at most MaxCalls
\* calls from there, of any operation and with any argument.
MaxCalls == 3
\* The games played to their end start MaxTail discs before the board is full;
\* from there every call is explored, with no limit, in
\* every column.
MaxTail == 8

RowIdx == 0 .. (ROWS - 1)
ColIdx == 0 .. (COLS - 1)
Players == {PLAYER1, PLAYER2}

\* The column arguments tried: every column and one integer beyond each end.
ColArgs == (0 - 1) .. COLS

VARIABLES
  board,           \* self.board: board[row][col], row 0 is the top
  next_row,        \* self._next_row: column -> next empty row, -1 when full
  current_player,  \* self.current_player
  moves_made,      \* self.moves_made
  game_over,       \* self.game_over
  winner,          \* self.winner (NoWinner for None)
  call,            \* the last call made: <<"init">>, <<"reset">>, <<"drop_piece", col>>
  outcome,         \* how it ended: "none", "ok", "InvalidState", "InvalidColumn", "ColumnFull"
  placed,          \* the (row, col) returned by the last successful drop_piece since the reset
  drops,           \* column -> number of successful drop_piece calls since the reset
  discs,           \* the canvas items tagged "disc" (a bag of ovals)
  status,          \* the text of the status label, as the pieces it is formatted from
  escaped,         \* the exception that left the last GUI handler, "none" if none did
  calls            \* the number of calls made in this run

engine_vars == <<board, next_row, current_player, moves_made, game_over, winner>>
vars == <<board, next_row, current_player, moves_made, game_over, winner,
          call, outcome, placed, drops, discs, status, escaped, calls>>
gui_vars == <<discs, status, escaped>>

\* The engine object as a value.
Engine ==
  [board |-> board, next_row |-> next_row, current_player |-> current_player,
   moves_made |-> moves_made, game_over |-> game_over, winner |-> winner]

(***************************************************************************)
(* reset(), lines 54-62.                                                   *)
(***************************************************************************)
reset ==
  [board          |-> [r \in RowIdx |-> [c \in ColIdx |-> EMPTY]],
   next_row       |-> [c \in ColIdx |-> ROWS - 1],
   current_player |-> PLAYER1,
   moves_made     |-> 0,
   game_over      |-> FALSE,
   winner         |-> NoWinner]

(***************************************************************************)
(* _count_consecutive, lines 115-138.                                      *)
(***************************************************************************)
\* "0 <= r < self.ROWS and 0 <= c < self.COLS" (lines 126, 133)
in_bounds(r, c) == 0 <= r /\ r < ROWS /\ 0 <= c /\ c < COLS

\* One while loop (lines 126-129, and 133-136 with the step negated): the number
\* of cells counted from (r, c) on, stepping by (dr, dc).
RECURSIVE walk(_, _, _, _, _, _)
walk(b, r, c, dr, dc, piece) ==
  IF in_bounds(r, c) /\ b[r][c] = piece
    THEN 1 + walk(b, r + dr, c + dc, dr, dc, piece)
    ELSE 0

\* Mutant: the reverse direction (lines 132-136) is not walked.
count_consecutive_forward_only(b, row, col, dr, dc, piece) ==
  1 + walk(b, row + dr, col + dc, dr, dc, piece)

count_consecutive(b, row, col, dr, dc, piece) ==
  1 + walk(b, row + dr, col + dc, dr, dc, piece)
    + walk(b, row - dr, col - dc, 0 - dr, 0 - dc, piece)

(***************************************************************************)
(* _is_winning_move, lines 105-113.                                        *)
(***************************************************************************)
\* Mutant: the second diagonal, (1, -1), is missing.
Directions_one_diagonal == {<<0, 1>>, <<1, 0>>, <<1, 1>>}

\* direction vectors: horizontal, vertical, two diagonals (line 110)
Directions == {<<0, 1>>, <<1, 0>>, <<1, 1>>, <<1, 0 - 1>>}

\* Mutant: three in a line are taken for a win (">= CONNECT - 1").
is_winning_move_at_three(b, row, col) ==
  \E d \in Directions :
    count_consecutive(b, row, col, d[1], d[2], b[row][col]) >= CONNECT - 1

is_winning_move(b, row, col) ==
  \E d \in Directions :
    count_consecutive(b, row, col, d[1], d[2], b[row][col]) >= CONNECT

(***************************************************************************)
(* drop_piece(col), lines 64-99.                                           *)
(***************************************************************************)
\* Mutant: the lower comparison is strict ("0 < col").
column_in_range_above_zero(col) == 0 < col /\ col < COLS

\* "0 <= col < self.COLS" (line 75)
column_in_range(col) == 0 <= col /\ col < COLS

\* "row < 0" (line 79)
column_full(row) == row < 0

\* Mutant: the free row is not moved up (line 84 is missing).
place_disc_keeps_row(g, row, col) ==
  [g EXCEPT !.board[row][col] = g.current_player,
            !.moves_made = @ + 1]

\* Mutant: the move is not counted (line 85 is missing).
place_disc_uncounted(g, row, col) ==
  [g EXCEPT !.board[row][col] = g.current_player,
            !.next_row[col] = @ - 1]

\* place the disc (lines 83-85)
place_disc(g, row, col) ==
  [g EXCEPT !.board[row][col] = g.current_player,
            !.next_row[col] = @ - 1,
            !.moves_made = @ + 1]

\* Mutant: the board counts as full one move later.
board_is_full_one_late(moves) == moves = ROWS * COLS + 1

\* "self.moves_made == self.ROWS * self.COLS" (line 91)
board_is_full(moves) == moves = ROWS * COLS

\* Mutant: the turn always passes to Player 2.
other_player_always_two(p) == IF p = PLAYER1 THEN PLAYER2 ELSE PLAYER2

\* swap turns (lines 95-97)
other_player(p) == IF p = PLAYER1 THEN PLAYER2 ELSE PLAYER1

\* Mutant: the win branch names the winner without ending the game (line 89
\* is missing).
conclude_win_keeps_playing(g, row, col) ==
  IF is_winning_move(g.board, row, col)
    THEN [g EXCEPT !.winner = g.current_player]
  ELSE IF board_is_full(g.moves_made)
    THEN [g EXCEPT !.game_over = TRUE]
  ELSE [g EXCEPT !.current_player = other_player(g.current_player)]

\* Mutant: the full board is tested before the winning move.
conclude_draw_first(g, row, col) ==
  IF board_is_full(g.moves_made)
    THEN [g EXCEPT !.game_over = TRUE]
  ELSE IF is_winning_move(g.board, row, col)
    THEN [g EXCEPT !.game_over = TRUE, !.winner = g.current_player]
  ELSE [g EXCEPT !.current_player = other_player(g.current_player)]

\* Mutant: the draw branch names the mover the winner.
conclude_draw_has_winner(g, row, col) ==
  IF is_winning_move(g.board, row, col)
    THEN [g EXCEPT !.game_over = TRUE, !.winner = g.current_player]
  ELSE IF board_is_full(g.moves_made)
    THEN [g EXCEPT !.game_over = TRUE, !.winner = g.current_player]
  ELSE [g EXCEPT !.current_player = other_player(g.current_player)]

\* check for a winning move, then a draw, else swap turns (lines 88-97)
conclude(g, row, col) ==
  IF is_winning_move(g.board, row, col)
    THEN [g EXCEPT !.game_over = TRUE, !.winner = g.current_player]
  ELSE IF board_is_full(g.moves_made)
    THEN [g EXCEPT !.game_over = TRUE]
  ELSE [g EXCEPT !.current_player = other_player(g.current_player)]

\* Mutant: the row returned is read after line 84 has moved it up.
drop_piece_returns_free_row(g, col) ==
  IF g.game_over
    THEN [g |-> g, outcome |-> "InvalidState", ret |-> <<>>]
  ELSE IF ~column_in_range(col)
    THEN [g |-> g, outcome |-> "InvalidColumn", ret |-> <<>>]
  ELSE LET row == g.next_row[col] IN
    IF column_full(row)
      THEN [g |-> g, outcome |-> "ColumnFull", ret |-> <<>>]
      ELSE [g |-> conclude(place_disc(g, row, col), row, col),
            outcome |-> "ok", ret |-> <<row - 1, col>>]

\* Mutant: moves_made is counted before the column is found full.
drop_piece_counts_first(g, col) ==
  IF g.game_over
    THEN [g |-> g, outcome |-> "InvalidState", ret |-> <<>>]
  ELSE IF ~column_in_range(col)
    THEN [g |-> g, outcome |-> "InvalidColumn", ret |-> <<>>]
  ELSE LET row == g.next_row[col] IN
    IF column_full(row)
      THEN [g |-> [g EXCEPT !.moves_made = @ + 1],
            outcome |-> "ColumnFull", ret |-> <<>>]
      ELSE [g |-> conclude(place_disc(g, row, col), row, col),
            outcome |-> "ok", ret |-> <<row, col>>]

\* Mutant: the check of game_over (lines 72-73) is missing.
drop_piece_plays_on(g, col) ==
  IF ~column_in_range(col)
    THEN [g |-> g, outcome |-> "InvalidColumn", ret |-> <<>>]
  ELSE LET row == g.next_row[col] IN
    IF column_full(row)
      THEN [g |-> g, outcome |-> "ColumnFull", ret |-> <<>>]
      ELSE [g |-> conclude(place_disc(g, row, col), row, col),
            outcome |-> "ok", ret |-> <<row, col>>]

\* Mutant: the column is checked before game_over.
drop_piece_column_first(g, col) ==
  IF ~column_in_range(col)
    THEN [g |-> g, outcome |-> "InvalidColumn", ret |-> <<>>]
  ELSE IF g.game_over
    THEN [g |-> g, outcome |-> "InvalidState", ret |-> <<>>]
  ELSE LET row == g.next_row[col] IN
    IF column_full(row)
      THEN [g |-> g, outcome |-> "ColumnFull", ret |-> <<>>]
      ELSE [g |-> conclude(place_disc(g, row, col), row, col),
            outcome |-> "ok", ret |-> <<row, col>>]

\* The call: the engine after it, how it ended and what it returned.
drop_piece(g, col) ==
  IF g.game_over
    THEN [g |-> g, outcome |-> "InvalidState", ret |-> <<>>]       \* line 73
  ELSE IF ~column_in_range(col)
    THEN [g |-> g, outcome |-> "InvalidColumn", ret |-> <<>>]      \* line 76
  ELSE LET row == g.next_row[col] IN                               \* line 78
    IF column_full(row)
      THEN [g |-> g, outcome |-> "ColumnFull", ret |-> <<>>]       \* line 80
      ELSE [g |-> conclude(place_disc(g, row, col), row, col),
            outcome |-> "ok", ret |-> <<row, col>>]                \* line 99

(***************************************************************************)
(* is_draw, lines 144-147.                                                 *)
(***************************************************************************)
is_draw(g) == g.game_over /\ g.winner = NoWinner

(***************************************************************************)
(* ConnectFourGUI, connect_four_gui.py.  The GUI is a value: its engine,   *)
(* the canvas items tagged "disc" and the text of the status label.  The   *)
(* holes and the background of _draw_board carry no tag and are never      *)
(* deleted; they are not part of the value.                                *)
(***************************************************************************)
\* The character between "Player" and the number in the f-strings of lines 120
\* and 124: U+202F NARROW NO-BREAK SPACE, by its code point.
NARROW_NBSP == 8239

\* _update_status, lines 117-124: the text set on the label, as the pieces of
\* the f-string; a character outside ASCII is its code point.  "if
\* self.engine.winner" is false for None.
update_status(g) ==
  IF g.game_over
    THEN IF g.winner # NoWinner
           THEN <<"Player", NARROW_NBSP, g.winner, " wins!">>
           ELSE <<"Draw!">>
    ELSE <<"Player", NARROW_NBSP, g.current_player, "'s turn">>

\* Mutant: the board row is turned upside down before it is drawn.
draw_disc_flipped(g, row, col) ==
  LET x0 == col * CELL_SIZE + DISC_OUTLINE
      y0 == (ROWS - 1 - row) * CELL_SIZE + DISC_OUTLINE
  IN  [x0 |-> x0, y0 |-> y0,
       x1 |-> x0 + CELL_SIZE - 2 * DISC_OUTLINE,
       y1 |-> y0 + CELL_SIZE - 2 * DISC_OUTLINE,
       fill |-> IF g.board[row][col] = PLAYER1 THEN COLOR_P1 ELSE COLOR_P2]

\* _draw_disc, lines 96-112: the oval created (its tag is "disc").
draw_disc(g, row, col) ==
  LET x0 == col * CELL_SIZE + DISC_OUTLINE
      y0 == row * CELL_SIZE + DISC_OUTLINE
  IN  [x0 |-> x0, y0 |-> y0,
       x1 |-> x0 + CELL_SIZE - 2 * DISC_OUTLINE,
       y1 |-> y0 + CELL_SIZE - 2 * DISC_OUTLINE,
       fill |-> IF g.board[row][col] = PLAYER1 THEN COLOR_P1 ELSE COLOR_P2]

\* ConnectFourGUI(master), lines 23-50.
gui_constructed ==
  [g |-> reset, discs |-> EmptyBag, status |-> update_status(reset)]

\* new_game, lines 70-74.
new_game(gui) ==
  [g |-> reset, discs |-> EmptyBag, status |-> update_status(reset)]

\* "except ValueError" (line 63) catches what lines 76 and 80 raise, and not
\* the RuntimeError of line 73.
is_value_error(out) == out \in {"InvalidColumn", "ColumnFull"}

\* Mutant: the guard of lines 57-58 is missing.
on_click_unguarded(gui, x) ==
  LET col == x \div CELL_SIZE
      res == drop_piece(gui.g, col)
  IN  IF is_value_error(res.outcome)
        THEN [gui |-> [gui EXCEPT !.g = res.g],
              engine |-> res.outcome, ret |-> <<>>, escaped |-> "none"]
      ELSE IF res.outcome # "ok"
        THEN [gui |-> [gui EXCEPT !.g = res.g],
              engine |-> res.outcome, ret |-> <<>>, escaped |-> "RuntimeError"]
      ELSE [gui |-> [g |-> res.g,
                     discs |-> gui.discs (+) SetToBag({draw_disc(res.g, res.ret[1], res.ret[2])}),
                     status |-> update_status(res.g)],
            engine |-> "ok", ret |-> res.ret, escaped |-> "none"]

\* on_click, lines 55-68, for a click at event.x = x: the GUI after it, how the
\* drop_piece call it made ended ("not called" if it made none), what that call
\* returned, and the exception that left the handler.
on_click(gui, x) ==
  IF gui.g.game_over
    THEN [gui |-> gui, engine |-> "not called", ret |-> <<>>,
          escaped |-> "none"]                                        \* line 58
  ELSE
    LET col == x \div CELL_SIZE                                      \* line 60
        res == drop_piece(gui.g, col)                                \* line 62
    IN  IF is_value_error(res.outcome)
          THEN [gui |-> [gui EXCEPT !.g = res.g],
                engine |-> res.outcome, ret |-> <<>>,
                escaped |-> "none"]                                  \* line 65
        ELSE IF res.outcome # "ok"
          THEN [gui |-> [gui EXCEPT !.g = res.g],
                engine |-> res.outcome, ret |-> <<>>,
                escaped |-> "RuntimeError"]                          \* not caught
        ELSE [gui |-> [g |-> res.g,
                       discs |-> gui.discs (+)
                         SetToBag({draw_disc(res.g, res.ret[1], res.ret[2])}),
                       status |-> update_status(res.g)],
              engine |-> "ok", ret |-> res.ret,
              escaped |-> "none"]                                    \* lines 67-68

(***************************************************************************)
(* The state machine.                                                      *)
(***************************************************************************)
\* Three complete games (42 columns each, found by playing the engine) in which
\* nobody completes four before the board is nearly full, and the shortest
\* game there is: seven discs, Player 1 wins in column 0.  A run starts in
\* the position after any number of their moves.
Line1 ==
  <<4, 5, 4, 3, 2, 1, 2, 6, 6, 2, 5, 0, 5, 4, 5, 0, 2, 6, 6, 3, 2,
    4, 6, 2, 1, 0, 3, 1, 6, 3, 4, 1, 3, 5, 3, 4, 0, 5, 0, 1, 1, 0>>
Line2 ==
  <<0, 3, 0, 6, 1, 3, 0, 5, 4, 1, 1, 1, 1, 2, 4, 3, 5, 2, 3, 3, 1,
    4, 2, 4, 3, 0, 0, 2, 0, 2, 6, 5, 5, 4, 6, 6, 4, 6, 5, 5, 6, 2>>
Line3 ==
  <<4, 6, 2, 2, 5, 1, 2, 0, 5, 4, 5, 4, 4, 5, 5, 5, 0, 0, 0, 1, 0,
    4, 6, 0, 2, 2, 4, 6, 6, 6, 6, 3, 1, 1, 3, 3, 1, 2, 3, 3, 3, 1>>
Line4 == <<0, 1, 0, 1, 0, 1, 0>>
Lines == {Line1, Line2, Line3, Line4}

\* What the driver of the engine holds after a call: the engine, how the call
\* ended, the last position returned and the successful drops per column.
constructed ==
  [g |-> reset, outcome |-> "none", placed |-> <<>>,
   drops |-> [c \in ColIdx |-> 0]]

after_drop(st, col) ==
  LET res == drop_piece(st.g, col) IN
    [g |-> res.g,
     outcome |-> res.outcome,
     placed |-> IF res.outcome = "ok" THEN res.ret ELSE st.placed,
     drops |-> IF res.outcome = "ok"
                 THEN [st.drops EXCEPT ![col] = @ + 1] ELSE st.drops]

\* The run of calls drop_piece(cols[i]); ...; drop_piece(cols[n]) made from st.
\* (Each call is evaluated before the next one is made: the state after it is
\* drawn from a one-element set.)
RECURSIVE replay_from(_, _, _, _)
replay_from(st, cols, i, n) ==
  IF i > n
    THEN st
    ELSE CHOOSE end \in {replay_from(nxt, cols, i + 1, n) :
                           nxt \in {after_drop(st, cols[i])}} : TRUE

\* ConnectFour(); drop_piece(cols[1]); ...; drop_piece(cols[n])
replay(cols, n) == replay_from(constructed, cols, 1, n)

\* The states a run starts in: the engine as constructed (no move made), or one
\* of the scripted games after any number of its moves.
Openings == UNION {{replay(l, n) : n \in 0 .. Len(l)} : l \in Lines}

\* ConnectFour(): __init__ (lines 41-48) ends in reset(); then the calls of the
\* opening, if any.  The engine is used on its own: there is no canvas item
\* and no status text.
Init ==
  \E o \in Openings :
    /\ board = o.g.board
    /\ next_row = o.g.next_row
    /\ current_player = o.g.current_player
    /\ moves_made = o.g.moves_made
    /\ game_over = o.g.game_over
    /\ winner = o.g.winner
    /\ call = IF o.g.moves_made = 0 THEN <<"init">>
              ELSE <<"drop_piece", o.placed[2]>>
    /\ outcome = o.outcome
    /\ placed = o.placed
    /\ drops = o.drops
    /\ discs = EmptyBag
    /\ status = <<>>
    /\ escaped = "none"
    /\ calls = 0

\* Mutant: reset() does not clear the winner (line 62 is missing).
Reset_keeps_winner ==
  /\ board' = reset.board
  /\ next_row' = reset.next_row
  /\ current_player' = reset.current_player
  /\ moves_made' = reset.moves_made
  /\ game_over' = reset.game_over
  /\ winner' = winner
  /\ call' = <<"reset">>
  /\ outcome' = "none"
  /\ placed' = <<>>
  /\ drops' = [c \in ColIdx |-> 0]
  /\ UNCHANGED gui_vars

\* game.reset()
Reset ==
  /\ board' = reset.board
  /\ next_row' = reset.next_row
  /\ current_player' = reset.current_player
  /\ moves_made' = reset.moves_made
  /\ game_over' = reset.game_over
  /\ winner' = reset.winner
  /\ call' = <<"reset">>
  /\ outcome' = "none"
  /\ placed' = <<>>
  /\ drops' = [c \in ColIdx |-> 0]
  /\ UNCHANGED gui_vars

\* game.drop_piece(col)
DropPiece(col) ==
  \E res \in {drop_piece(Engine, col)} :
    /\ board' = res.g.board
    /\ next_row' = res.g.next_row
    /\ current_player' = res.g.current_player
    /\ moves_made' = res.g.moves_made
    /\ game_over' = res.g.game_over
    /\ winner' = res.g.winner
    /\ call' = <<"drop_piece", col>>
    /\ outcome' = res.outcome
    /\ placed' = IF res.outcome = "ok" THEN res.ret ELSE placed
    /\ drops' = IF res.outcome = "ok" THEN [drops EXCEPT ![col] = @ + 1] ELSE drops
    /\ UNCHANGED gui_vars

\* One more call of the run, while the run lasts.
OneMoreCall == calls < MaxCalls /\ calls' = calls + 1

Next ==
  \/ \E col \in ColArgs : DropPiece(col) /\ OneMoreCall
  \/ Reset /\ OneMoreCall

Spec == Init /\ [][Next]_vars


(***************************************************************************)
(* A game played to its end: drop_piece calls only, no reset, from the     *)
(* late-game positions, where every legal move is explored.  A legal move  *)
(* keeps being made: a player who can move does move.                      *)
(***************************************************************************)
InitLate == Init /\ moves_made = ROWS * COLS - MaxTail

LegalMove ==
  \E col \in ColIdx : DropPiece(col) /\ outcome' = "ok" /\ UNCHANGED calls

NextCall == \E col \in ColArgs : DropPiece(col) /\ UNCHANGED calls

SpecPlayOut == InitLate /\ [][NextCall]_vars /\ WF_vars(LegalMove)

(***************************************************************************)
(* The front-end: the engine is reached through the handlers of            *)
(* ConnectFourGUI only, as under Tk's event loop.                          *)
(***************************************************************************)
\* The event.x of the clicks tried: the left-most pixel of every column, the
\* right-most pixel of the first and of the last column, and one pixel beyond
\* each side of the canvas.
ClickXs ==
  {0 - 1, CELL_SIZE - 1, COLS * CELL_SIZE - 1} \cup {c * CELL_SIZE : c \in 0 .. COLS}

\* What is held after the GUI is built: the GUI, how the last drop_piece call
\* of a handler ended, the last position returned, the drops per column and
\* the exception that left the last handler.
gui_built ==
  [gui |-> gui_constructed, outcome |-> "none", placed |-> <<>>,
   drops |-> [c \in ColIdx |-> 0], escaped |-> "none"]

after_click(st, x) ==
  LET r == on_click(st.gui, x) IN
    [gui |-> r.gui,
     outcome |-> r.engine,
     placed |-> IF r.engine = "ok" THEN r.ret ELSE st.placed,
     drops |-> IF r.engine = "ok"
                 THEN [st.drops EXCEPT ![r.ret[2]] = @ + 1] ELSE st.drops,
     escaped |-> r.escaped]

\* A click in the middle of column col.
click_x(col) == col * CELL_SIZE + CELL_SIZE \div 2

\* The clicks on the columns cols[i], ..., cols[n], made from st, each handled
\* before the next.
RECURSIVE clicks_from(_, _, _, _)
clicks_from(st, cols, i, n) ==
  IF i > n
    THEN st
    ELSE CHOOSE end \in {clicks_from(nxt, cols, i + 1, n) :
                           nxt \in {after_click(st, click_x(cols[i]))}} : TRUE

\* The GUI as built (no click made), or after the clicks of a scripted game up
\* to any of its moves.
GuiOpenings ==
  UNION {{clicks_from(gui_built, l, 1, n) : n \in 0 .. Len(l)} : l \in Lines}

InitGUI ==
  \E o \in GuiOpenings :
    /\ board = o.gui.g.board
    /\ next_row = o.gui.g.next_row
    /\ current_player = o.gui.g.current_player
    /\ moves_made = o.gui.g.moves_made
    /\ game_over = o.gui.g.game_over
    /\ winner = o.gui.g.winner
    /\ call = IF o.gui.g.moves_made = 0 THEN <<"gui_init">>
              ELSE <<"on_click", click_x(o.placed[2])>>
    /\ outcome = o.outcome
    /\ placed = o.placed
    /\ drops = o.drops
    /\ discs = o.gui.discs
    /\ status = o.gui.status
    /\ escaped = o.escaped
    /\ calls = 0

\* The GUI object as a value.
Gui == [g |-> Engine, discs |-> discs, status |-> status]

\* A click on the canvas at event.x = x.
OnClick(x) ==
  \E r \in {on_click(Gui, x)} :
    /\ board' = r.gui.g.board
    /\ next_row' = r.gui.g.next_row
    /\ current_player' = r.gui.g.current_player
    /\ moves_made' = r.gui.g.moves_made
    /\ game_over' = r.gui.g.game_over
    /\ winner' = r.gui.g.winner
    /\ call' = <<"on_click", x>>
    /\ outcome' = r.engine
    /\ placed' = IF r.engine = "ok" THEN r.ret ELSE placed
    /\ drops' = IF r.engine = "ok" THEN [drops EXCEPT ![r.ret[2]] = @ + 1] ELSE drops
    /\ discs' = r.gui.discs
    /\ status' = r.gui.status
    /\ escaped' = r.escaped

\* The "New Game" button.
NewGame ==
  LET n == new_game(Gui) IN
    /\ board' = n.g.board
    /\ next_row' = n.g.next_row
    /\ current_player' = n.g.current_player
    /\ moves_made' = n.g.moves_made
    /\ game_over' = n.g.game_over
    /\ winner' = n.g.winner
    /\ call' = <<"new_game">>
    /\ outcome' = "none"
    /\ placed' = <<>>
    /\ drops' = [c \in ColIdx |-> 0]
    /\ discs' = n.discs
    /\ status' = n.status
    /\ escaped' = "none"

NextGUI ==
  \/ \E x \in ClickXs : OnClick(x) /\ OneMoreCall
  \/ NewGame /\ OneMoreCall

SpecGUI == InitGUI /\ [][NextGUI]_vars

(***************************************************************************)
(* Vocabulary of the properties.  It is stated on the board alone, by      *)
(* windows of four cells, and uses none of the engine's operators.         *)
(***************************************************************************)
\* The four axes of the rules: horizontal, vertical and the two diagonals.
Axes == {<<0, 1>>, <<1, 0>>, <<1, 1>>, <<1, 0 - 1>>}

Span == 0 .. 3

\* The four cells (r, c), (r + dr, c + dc), ... are on the board and hold p.
FourFrom(b, r, c, dr, dc, p) ==
  \A i \in Span :
    /\ (r + i * dr) \in RowIdx
    /\ (c + i * dc) \in ColIdx
    /\ b[r + i * dr][c + i * dc] = p

\* Four or more contiguous discs of p along an axis, through the cell (row, col).
RunThrough(b, row, col, p) ==
  \E d \in Axes : \E k \in Span :
    FourFrom(b, row - k * d[1], col - k * d[2], d[1], d[2], p)

\* Four or more contiguous discs of p along an axis, anywhere on the board.
RunAnywhere(b, p) ==
  \E r \in RowIdx : \E c \in ColIdx : \E d \in Axes :
    FourFrom(b, r, c, d[1], d[2], p)

NonEmptyCells(b) == {rc \in RowIdx \X ColIdx : b[rc[1]][rc[2]] # EMPTY}
FilledRows(b, c) == {r \in RowIdx : b[r][c] # EMPTY}
BoardFull(b) == \A r \in RowIdx : \A c \in ColIdx : b[r][c] # EMPTY

\* The step is a drop_piece call / one that returned / one that raised.
Dropping == call'[1] = "drop_piece"
Succeeded == Dropping /\ outcome' = "ok"
Failed == Dropping /\ outcome' \in {"InvalidState", "InvalidColumn", "ColumnFull"}
Resetting == call' = <<"reset">>

\* The board after drop_piece(0), (1), (0), (1), (0), (1), (0) on a new game:
\* Player 1 on rows 5, 4, 3, 2 of column 0, Player 2 on rows 5, 4, 3 of column 1.
ScenarioBoard ==
  [r \in RowIdx |-> [c \in ColIdx |->
     IF c = 0 /\ r >= 2 THEN PLAYER1
     ELSE IF c = 1 /\ r >= 3 THEN PLAYER2
     ELSE EMPTY]]

(***************************************************************************)
(* C1.  Win detection is complete: a successful drop_piece in a game that  *)
(* is not over, which puts the mover's disc on a line of four or more of   *)
(* the mover's discs through the placed cell (any of the four axes, both   *)
(* sides counted), sets game_over, makes the mover the winner and leaves   *)
(* current_player the mover.  In particular the board of the game          *)
(* 0,1,0,1,0,1,0 is only ever seen with game_over and Player 1 the winner. *)
(***************************************************************************)
C1_WinComplete ==
  [][ /\ ( /\ ~game_over
           /\ Succeeded
           /\ RunThrough(board', placed'[1], placed'[2], current_player) )
         => ( /\ game_over'
              /\ winner' = current_player
              /\ current_player' = current_player )
      /\ (board' = ScenarioBoard) => (game_over' /\ winner' = PLAYER1)
    ]_vars

\* The seventh move of 0,1,0,1,0,1,0 has been made and has won.
C1_Witness ==
  /\ board = ScenarioBoard
  /\ placed = <<2, 0>>
  /\ moves_made = 7
  /\ game_over
  /\ winner = PLAYER1
  /\ calls > 0

(***************************************************************************)
(* C2.  Win detection is sound: whenever there is a winner, it is one of   *)
(* the two players, the game is over, and the board holds four or more     *)
(* contiguous discs of that player along an axis through the most recently *)
(* placed disc.                                                            *)
(***************************************************************************)
C2_WinSound ==
  /\ winner \in {NoWinner} \cup Players
  /\ winner # NoWinner =>
       /\ game_over
       /\ placed # <<>>
       /\ board[placed[1]][placed[2]] = winner
       /\ RunThrough(board, placed[1], placed[2], winner)

\* Player 2 has won, and calls were made after the win.
C2_Witness ==
  /\ winner = PLAYER2
  /\ game_over
  /\ outcome = "InvalidState"

(***************************************************************************)
(* C3.  Failures are atomic: a drop_piece call that raises leaves board,   *)
(* next_row, current_player, moves_made, game_over and winner as they were.*)
(***************************************************************************)
C3_FailureAtomic ==
  [][ Failed => UNCHANGED engine_vars ]_vars

\* A call on a full column of a game in progress has been refused.
C3_Witness ==
  /\ outcome = "ColumnFull"
  /\ moves_made > 0
  /\ ~game_over

(***************************************************************************)
(* C4.  Finished is terminal: from a state with game_over, every step that *)
(* is not a reset keeps game_over and leaves board, current_player,        *)
(* moves_made and winner unchanged; a reset leaves the finished state.     *)
(***************************************************************************)
C4_FinishedTerminal ==
  [][ /\ (game_over /\ ~Resetting) =>
           (game_over' /\ UNCHANGED <<board, current_player, moves_made, winner>>)
      /\ (game_over /\ Resetting) => ~game_over'
    ]_vars

\* A drop into an open column was tried on a finished game.
C4_Witness ==
  /\ game_over
  /\ outcome = "InvalidState"
  /\ call[2] \in ColIdx
  /\ next_row[call[2]] >= 0

(***************************************************************************)
(* C5.  When the game is over, drop_piece(col) ends in InvalidState for    *)
(* every col: also for a col outside the board and for a full column.      *)
(***************************************************************************)
C5_OverIsInvalidState ==
  [][ (game_over /\ Dropping) => outcome' = "InvalidState" ]_vars

\* On a finished game with a full column, a call was made with a column
\* outside the board; InvalidState is what it raised.
C5_Witness ==
  /\ game_over
  /\ outcome = "InvalidState"
  /\ call[2] \notin ColIdx
  /\ \E c \in ColIdx : next_row[c] < 0

(***************************************************************************)
(* C6.  In a game that is not over the outcome of drop_piece(col) depends  *)
(* on col and the fill of the column alone: InvalidColumn exactly when     *)
(* col < 0 or col >= COLS, ColumnFull exactly when col is on the board and *)
(* the column holds ROWS discs, and success in every other case.           *)
(***************************************************************************)
C6_OutcomeByColumn ==
  [][ (~game_over /\ Dropping) =>
        LET col      == call'[2]
            outside  == col < 0 \/ col >= COLS
            holdsAll == col \in ColIdx /\ Cardinality(FilledRows(board, col)) = ROWS
        IN  /\ outcome' = "InvalidColumn" <=> outside
            /\ outcome' = "ColumnFull" <=> holdsAll
            /\ outcome' = "ok" <=> (~outside /\ ~holdsAll)
    ]_vars

\* In a game in progress with a full column 0, drop_piece(0) was refused.
C6_Witness ==
  /\ ~game_over
  /\ call = <<"drop_piece", 0>>
  /\ outcome = "ColumnFull"
  /\ Cardinality(FilledRows(board, 0)) = ROWS

(***************************************************************************)
(* C7.  Gravity: for every column c, next_row[c] is in -1 .. ROWS-1, the   *)
(* column holds exactly ROWS - (next_row[c] + 1) discs, they are the rows  *)
(* next_row[c]+1 .. ROWS-1 (nothing floats), and after k successful drops  *)
(* into c since the reset they are the rows ROWS-k .. ROWS-1.              *)
(***************************************************************************)
C7_Gravity ==
  \A c \in ColIdx :
    /\ next_row[c] \in (0 - 1) .. (ROWS - 1)
    /\ Cardinality(FilledRows(board, c)) = ROWS - (next_row[c] + 1)
    /\ FilledRows(board, c) = (next_row[c] + 1) .. (ROWS - 1)
    /\ FilledRows(board, c) = (ROWS - drops[c]) .. (ROWS - 1)

\* One column is full, one holds some discs and one is empty.
C7_Witness ==
  /\ \E c \in ColIdx : drops[c] = ROWS /\ next_row[c] = 0 - 1
  /\ \E c \in ColIdx : drops[c] > 0 /\ drops[c] < ROWS
  /\ \E c \in ColIdx : drops[c] = 0
  /\ calls > 0

(***************************************************************************)
(* C8.  moves_made is the number of non-empty cells of the board, in every *)
(* reachable state: after successful and failed calls and after resets.    *)
(***************************************************************************)
C8_MovesCountDiscs ==
  moves_made = Cardinality(NonEmptyCells(board))

\* Discs are on the board and the last call was refused.
C8_Witness ==
  /\ moves_made > 3
  /\ outcome = "InvalidColumn"

(***************************************************************************)
(* C9.  Draw detection: a successful drop_piece that completes no four in  *)
(* a line and brings moves_made to ROWS * COLS sets game_over and leaves   *)
(* no winner (is_draw holds); so a full board without any four in a line   *)
(* is always seen with game_over and no winner.                            *)
(***************************************************************************)
C9_DrawDetected ==
  [][ /\ ( /\ Succeeded
           /\ moves_made' = ROWS * COLS
           /\ ~RunThrough(board', placed'[1], placed'[2], current_player) )
         => (game_over' /\ winner' = NoWinner /\ is_draw(Engine)')
      /\ ( /\ BoardFull(board')
           /\ \A p \in Players : ~RunAnywhere(board', p) )
         => (game_over' /\ winner' = NoWinner)
    ]_vars

\* The board has been filled without a four in a line.
C9_Witness ==
  /\ BoardFull(board)
  /\ \A p \in Players : ~RunAnywhere(board, p)
  /\ outcome = "ok"
  /\ is_draw(Engine)
  /\ calls > 0

(***************************************************************************)
(* C10, as stated.  With all 42 cells full and no winner, a further        *)
(* drop_piece call on a column of the board is the (43rd) move that sets   *)
(* game_over with no winner.                                               *)
(***************************************************************************)
C10_Move43Sets ==
  [][ (BoardFull(board) /\ winner = NoWinner /\ Dropping /\ call'[2] \in ColIdx) =>
        (outcome' = "ok" /\ game_over' /\ winner' = NoWinner)
    ]_vars

(***************************************************************************)
(* C10, amended.  It is the 42nd move, the one that fills the board        *)
(* without a winner, that sets game_over; with all 42 cells full and no    *)
(* winner game_over is already set, and a 43rd drop_piece call is refused  *)
(* with InvalidState and changes nothing.                                  *)
(***************************************************************************)
C10_Move42Sets ==
  [][ /\ (Succeeded /\ BoardFull(board') /\ winner' = NoWinner) =>
           (moves_made' = ROWS * COLS /\ ~game_over /\ game_over')
      /\ (BoardFull(board) /\ winner = NoWinner /\ Dropping) =>
           ( /\ game_over
             /\ outcome' = "InvalidState"
             /\ game_over' /\ winner' = NoWinner
             /\ moves_made' = ROWS * COLS )
    ]_vars

\* A 43rd call was made on a full board without a winner.
C10_Witness ==
  /\ BoardFull(board)
  /\ moves_made = ROWS * COLS
  /\ winner = NoWinner
  /\ call[1] = "drop_piece"
  /\ outcome = "InvalidState"

(***************************************************************************)
(* More vocabulary.                                                        *)
(***************************************************************************)
DiscsOf(b, p) == Cardinality({rc \in RowIdx \X ColIdx : b[rc[1]][rc[2]] = p})
Even(n) == n % 2 = 0

\* The start of a game, written out: every cell empty, every column open at
\* the bottom row, Player 1 to move, no move made, not over, no winner.
StartOfGame ==
  /\ \A r \in RowIdx : \A c \in ColIdx : board[r][c] = EMPTY
  /\ \A c \in ColIdx : next_row[c] = ROWS - 1
  /\ DOMAIN next_row = ColIdx
  /\ current_player = PLAYER1
  /\ moves_made = 0
  /\ game_over = FALSE
  /\ winner = NoWinner

(***************************************************************************)
(* C11.  reset() called in any state (in progress, won, drawn, or just     *)
(* reset: idempotence) yields exactly the start of a game, and so does the *)
(* construction of the engine.                                             *)
(***************************************************************************)
C11_ResetRestores ==
  [][ /\ Resetting => StartOfGame'
      /\ call = <<"init">> => StartOfGame
    ]_vars

\* reset() has been called.
C11_Witness ==
  /\ call = <<"reset">>
  /\ StartOfGame

(***************************************************************************)
(* C12.  Turn order: Player 1 moves first; a successful drop_piece that    *)
(* does not end the game passes the turn, a refused call never does; so in *)
(* a game in progress current_player is Player 1 exactly when moves_made   *)
(* is even, and Player 1 always has as many discs as Player 2 or one more. *)
(***************************************************************************)
TurnOrder ==
  /\ current_player \in Players
  /\ ~game_over => (current_player = PLAYER1 <=> Even(moves_made))
  /\ DiscsOf(board, PLAYER1) - DiscsOf(board, PLAYER2) \in {0, 1}

C12_TurnOrder ==
  [][ /\ TurnOrder /\ TurnOrder'
      /\ (Succeeded /\ ~game_over') =>
           (current_player' # current_player /\ current_player' \in Players)
      /\ Failed => current_player' = current_player
      /\ Resetting => current_player' = PLAYER1
    ]_vars

\* Player 2 is to move, and a call has just been refused.
C12_Witness ==
  /\ ~game_over
  /\ current_player = PLAYER2
  /\ outcome \in {"InvalidColumn", "ColumnFull"}
  /\ moves_made >= 3

(***************************************************************************)
(* C13.  A successful drop_piece(col) returns (row, col) with row the      *)
(* value next_row[col] had; that cell was empty and now holds the player   *)
(* who was to move, every other cell is unchanged, next_row[col] is one    *)
(* lower, every other next_row is unchanged, and moves_made is one higher. *)
(***************************************************************************)
C13_DropFrame ==
  [][ Succeeded =>
        LET col == call'[2]
            row == next_row[col]
        IN  /\ placed' = <<row, col>>
            /\ board[row][col] = EMPTY
            /\ board'[row][col] = current_player
            /\ \A r \in RowIdx : \A c \in ColIdx :
                 (r # row \/ c # col) => board'[r][c] = board[r][c]
            /\ next_row'[col] = next_row[col] - 1
            /\ \A c \in ColIdx \ {col} : next_row'[c] = next_row[c]
            /\ moves_made' = moves_made + 1
    ]_vars

\* The second disc of a game has landed on top of the first.
C13_Witness ==
  /\ outcome = "ok"
  /\ moves_made = 2
  /\ placed # <<>>
  /\ placed[1] = ROWS - 2
  /\ board[placed[1]][placed[2]] = PLAYER2
  /\ board[placed[1] + 1][placed[2]] = PLAYER1

(***************************************************************************)
(* C14.  The game is over exactly when there is a winner or moves_made is  *)
(* ROWS * COLS; and game_over turns from false to true only in a           *)
(* successful drop_piece.                                                  *)
(***************************************************************************)
OverForAReason ==
  game_over <=> (winner # NoWinner \/ moves_made = ROWS * COLS)

C14_FinishedWhy ==
  [][ /\ OverForAReason /\ OverForAReason'
      /\ (~game_over /\ game_over') => Succeeded
    ]_vars

\* A move has just won the game before the board was full.
C14_Witness ==
  /\ game_over
  /\ winner # NoWinner
  /\ moves_made < ROWS * COLS
  /\ outcome = "ok"
  /\ calls > 0

(***************************************************************************)
(* C15.  Looking only at the lines through the placed disc loses nothing:  *)
(* while the game is in progress, and when it has ended without a winner,  *)
(* the board holds no four or more contiguous discs of one player along    *)
(* any row, column or diagonal, anywhere.                                  *)
(***************************************************************************)
C15_NoRunUnnoticed ==
  /\ ~game_over => \A p \in Players : ~RunAnywhere(board, p)
  /\ (game_over /\ winner = NoWinner) => \A p \in Players : ~RunAnywhere(board, p)

\* One cell is left and neither player has four in a line.
C15_Witness ==
  /\ ~game_over
  /\ moves_made = ROWS * COLS - 1
  /\ \A p \in Players : ~RunAnywhere(board, p)
  /\ calls > 0

(***************************************************************************)
(* C16.  A win takes precedence over a draw: the successful drop_piece     *)
(* that fills the last empty cell and completes four or more in a line for *)
(* the mover ends the game with the mover as winner.                       *)
(***************************************************************************)
C16_WinBeforeDraw ==
  [][ ( /\ Succeeded
        /\ moves_made' = ROWS * COLS
        /\ BoardFull(board')
        /\ RunThrough(board', placed'[1], placed'[2], current_player) )
      => ( /\ game_over'
           /\ winner' = current_player
           /\ ~is_draw(Engine)' )
    ]_vars

\* The 42nd disc has won the game.
C16_Witness ==
  /\ BoardFull(board)
  /\ moves_made = ROWS * COLS
  /\ outcome = "ok"
  /\ winner = board[placed[1]][placed[2]]
  /\ winner # NoWinner
  /\ calls > 0

(***************************************************************************)
(* C17.  Every game ends and never gets stuck: moves_made never exceeds    *)
(* ROWS * COLS; while the game is not over some column has a free row, and *)
(* drop_piece on it succeeds; without a reset there are at most            *)
(* ROWS * COLS successful calls, and after that many the game is over; and *)
(* if a legal move keeps being made, the game is eventually over.          *)
(***************************************************************************)
RECURSIVE SumUpTo(_, _)
SumUpTo(f, n) == IF n < 0 THEN 0 ELSE f[n] + SumUpTo(f, n - 1)

NeverStuck ==
  /\ moves_made <= ROWS * COLS
  /\ ~game_over =>
       \E c \in ColIdx : next_row[c] >= 0 /\ drop_piece(Engine, c).outcome = "ok"
  /\ SumUpTo(drops, COLS - 1) <= ROWS * COLS
  /\ SumUpTo(drops, COLS - 1) = ROWS * COLS => game_over

C17_GameEnds ==
  []NeverStuck /\ <>game_over

\* The 42nd successful call has been made, and the game is over.
C17_Witness ==
  /\ SumUpTo(drops, COLS - 1) = ROWS * COLS
  /\ moves_made = ROWS * COLS
  /\ game_over
  /\ \A c \in ColIdx : next_row[c] < 0

(***************************************************************************)
(* Vocabulary of the front-end properties.                                 *)
(***************************************************************************)
Clicking == call'[1] = "on_click"

\* The column a click at x falls in, by the pixels of the canvas: column c
\* covers the pixels c * 80 .. c * 80 + 79.
OnCanvas(x) == \E c \in ColIdx : c * 80 <= x /\ x <= c * 80 + 79

\* The canvas item lies inside the square of cell (r, c).
InCell(it, r, c) ==
  /\ c * 80 <= it.x0 /\ it.x0 < it.x1 /\ it.x1 <= (c + 1) * 80
  /\ r * 80 <= it.y0 /\ it.y0 < it.y1 /\ it.y1 <= (r + 1) * 80

\* Player 1 is yellow, Player 2 is red.
ColourOf(p) == IF p = PLAYER1 THEN "#f5d20c" ELSE "#d62828"

(***************************************************************************)
(* C18.  The click handler lets no engine failure escape: for every click, *)
(* also one outside the columns of the canvas, on_click raises nothing; on *)
(* a finished game it does not call drop_piece; and when drop_piece fails  *)
(* with InvalidColumn or ColumnFull the engine, the rendered discs and the *)
(* status text are unchanged.                                              *)
(***************************************************************************)
C18_ClickNeverRaises ==
  [][ Clicking =>
        /\ escaped' = "none"
        /\ outcome' # "InvalidState"
        /\ game_over => (outcome' = "not called" /\ UNCHANGED <<engine_vars, discs, status>>)
        /\ ~game_over => outcome' # "not called"
        /\ (~game_over /\ ~OnCanvas(call'[2])) => outcome' = "InvalidColumn"
        /\ outcome' \in {"InvalidColumn", "ColumnFull"} =>
             UNCHANGED <<engine_vars, discs, status>>
    ]_vars

\* Discs are on the canvas of a finished game, and a click beyond the last
\* column has been handled.
C18_Witness ==
  /\ call = <<"on_click", COLS * CELL_SIZE>>
  /\ outcome = "not called"
  /\ game_over
  /\ escaped = "none"
  /\ discs # EmptyBag

(***************************************************************************)
(* C19.  After the construction of the GUI and after every click and new   *)
(* game, the status text agrees with the engine: it reads                  *)
(* "Player {winner} wins!" when the game is over with a winner, "Draw!"    *)
(* when it is over without one, "Player {current_player}'s turn"           *)
(* otherwise; also after the clicks on which on_click returns before       *)
(* refreshing the status.  In these texts "Player" is followed by a space, *)
(* U+0020, code point 32.                                                  *)
(***************************************************************************)
StatusAsSpecified ==
  IF game_over
    THEN IF winner \in Players
           THEN <<"Player", 32, winner, " wins!">>
           ELSE <<"Draw!">>
    ELSE <<"Player", 32, current_player, "'s turn">>

C19_StatusAgrees == status = StatusAsSpecified

\* The same texts with any one character after "Player": the branch taken and
\* the number shown.
StatusBranchAgrees ==
  IF game_over /\ winner \notin Players
    THEN status = <<"Draw!">>
    ELSE /\ Len(status) = 4
         /\ status[1] = "Player"
         /\ status[3] = (IF game_over THEN winner ELSE current_player)
         /\ status[4] = (IF game_over THEN " wins!" ELSE "'s turn")

(***************************************************************************)
(* C20.  The rendered discs mirror the board: the canvas holds exactly one *)
(* disc for each non-empty cell, inside that cell's square and in the      *)
(* colour of the player on it (Player 1 yellow, Player 2 red), no disc for *)
(* an empty cell and no disc elsewhere; after new_game it holds no disc.   *)
(***************************************************************************)
C20_DiscsMirrorBoard ==
  \E items \in {BagToSet(discs)} :
    /\ \A r \in RowIdx : \A c \in ColIdx :
         \E here \in {{it \in items : InCell(it, r, c)}} :
           IF board[r][c] = EMPTY
             THEN here = {}
             ELSE \E it \in here :
                    /\ here = {it}
                    /\ CopiesIn(it, discs) = 1
                    /\ it.fill = ColourOf(board[r][c])
    \* one disc in each non-empty cell and no more discs than that: none elsewhere
    /\ BagCardinality(discs) = Cardinality(NonEmptyCells(board))
    /\ call = <<"new_game">> => discs = EmptyBag

\* Four clicks into a new game: discs of both colours are on the canvas, above
\* the bottom row.
C20_Witness ==
  /\ call[1] = "on_click"
  /\ outcome = "ok"
  /\ moves_made = 4
  /\ BagCardinality(discs) = 4
  /\ \E it \in BagToSet(discs) : it.fill = "#f5d20c" /\ it.y0 < (ROWS - 1) * 80
  /\ \E it \in BagToSet(discs) : it.fill = "#d62828" /\ it.y0 < (ROWS - 1) * 80
  /\ calls > 0

=============================================================================
